---- MODULE Spec2Model ----
(***************************************************************************)
(* Model of the access-control gateway src/lambda/auth_function.py        *)
(* (lambda_handler): bearer-token authentication against the identity     *)
(* provider, the path/group/device policy, and the forward to a backend.  *)
(*                                                                         *)
(* Python strings on which the handler computes (split, startswith,       *)
(* lower, concatenation) are sequences of one-character strings.  Strings *)
(* that are only compared or copied (group names, user names, bodies,     *)
(* error texts, HTTP methods) are TLA+ strings.  An optional value (a     *)
(* dict.get result, an unset environment variable) is Some(v) or None.    *)
(*                                                                         *)
(* One invocation of lambda_handler is one request context r.  The handler *)
(* is cut at its three blocking collaborator calls (get_user,             *)
(* admin_list_groups_for_user, requests.request); everything between two  *)
(* calls is one atomic step.  COGNITO_USER_POOL_ID and COGNITO_CLIENT_ID  *)
(* are read with os.environ[...] and are taken to be set, and             *)
(* event['headers'] is taken to be a mapping.                             *)
(***************************************************************************)
EXTENDS Naturals, Integers, Sequences, FiniteSets, TLC

\* ------------------------------------------------------------ bounds
\* most header fields of one inbound event
MaxHeaders == 3

\* ------------------------------------------------- optional values
None == [some |-> FALSE, val |-> <<>>]
Some(v) == [some |-> TRUE, val |-> v]

\* ------------------------------------------------- string literals
Space == " "
HdrAuthorization == <<"A", "u", "t", "h", "o", "r", "i", "z", "a", "t", "i", "o", "n">>
HdrAuthorizationLc == <<"a", "u", "t", "h", "o", "r", "i", "z", "a", "t", "i", "o", "n">>
HdrHost == <<"H", "o", "s", "t">>
HdrHostUc == <<"H", "O", "S", "T">>
HdrDeviceId == <<"x", "-", "d", "e", "v", "i", "c", "e", "-", "i", "d">>
HdrDeviceIdMixed == <<"X", "-", "D", "e", "v", "i", "c", "e", "-", "I", "d">>
HdrAccept == <<"A", "c", "c", "e", "p", "t">>
LcHost == <<"h", "o", "s", "t">>
LcAuthorization == <<"a", "u", "t", "h", "o", "r", "i", "z", "a", "t", "i", "o", "n">>
EmptyStr == <<>>
AuthNoSpace == <<"B", "e", "a", "r", "e", "r", "X", "Y", "Z">>
AuthBearer == <<"B", "e", "a", "r", "e", "r", " ", "t", "o", "k">>
AuthBasic == <<"B", "a", "s", "i", "c", " ", "a", "b", "c">>
AuthEmptyToken == <<"B", "e", "a", "r", "e", "r", " ">>
AuthThreeParts == <<"B", "e", "a", "r", "e", "r", " ", "a", " ", "b">>
SchemeBearer == <<"B", "e", "a", "r", "e", "r">>
PrefixProtected == <<"/", "p", "r", "o", "t", "e", "c", "t", "e", "d", "P", "a", "t", "h">>
PrefixAdminPanel == <<"/", "a", "d", "m", "i", "n", "-", "p", "a", "n", "e", "l">>
PathReports == <<"/", "p", "r", "o", "t", "e", "c", "t", "e", "d", "P", "a", "t", "h", "/", "r", "e", "p", "o", "r", "t", "s">>
PathSearch == <<"/", "s", "e", "a", "r", "c", "h", "?", "q", "=", "1">>
PathAdmin == <<"/", "a", "d", "m", "i", "n">>
PathRoot == <<"/">>
TrustedDevice == <<"t", "r", "u", "s", "t", "e", "d", "-", "d", "e", "v", "i", "c", "e", "-", "1", "2", "3">>
OtherDevice == <<"l", "a", "p", "t", "o", "p", "-", "9">>
external_service_url == <<"h", "t", "t", "p", ":", "/", "/", "h", "t", "t", "p", "b", "i", "n", ".", "o", "r", "g">>
ProtectedBase == <<"h", "t", "t", "p", "s", ":", "/", "/", "a", "p", "i", ".", "i", "n", "t">>
HostValue == <<"g", "w", ".", "e", "x", "a", "m", "p", "l", "e">>
AcceptValue == <<"*", "/", "*">>

\* ------------------------------------------------- Python primitives
UpperChars == <<"A","B","C","D","E","F","G","H","I","J","K","L","M","N","O","P","Q","R","S","T","U","V","W","X","Y","Z">>
LowerChars == <<"a","b","c","d","e","f","g","h","i","j","k","l","m","n","o","p","q","r","s","t","u","v","w","x","y","z">>

\* str.lower() on one character
LowerChar(c) ==
    IF \E i \in 1..Len(UpperChars) : UpperChars[i] = c
    THEN LowerChars[CHOOSE i \in 1..Len(UpperChars) : UpperChars[i] = c]
    ELSE c

\* str.lower()
Lower(s) == [i \in 1..Len(s) |-> LowerChar(s[i])]

\* str.startswith(prefix)
StartsWith(s, prefix) ==
    /\ Len(s) >= Len(prefix)
    /\ SubSeq(s, 1, Len(prefix)) = prefix

\* str.split(sep) with a one-character separator: the list of the pieces
\* between the separators, empty pieces included
RECURSIVE Split(_, _)
Split(s, sep) ==
    IF \E i \in 1..Len(s) : s[i] = sep
    THEN LET i == CHOOSE i \in 1..Len(s) :
                      s[i] = sep /\ \A j \in 1..(i - 1) : s[j] # sep
         IN  <<SubSeq(s, 1, i - 1)>> \o Split(SubSeq(s, i + 1, Len(s)), sep)
    ELSE <<s>>

\* dict.get(key): None when the key, compared exactly, is absent
Get(d, key) == IF key \in DOMAIN d THEN Some(d[key]) ELSE None

\* Python truthiness of an optional string: None and '' are false
Truthy(o) == o.some /\ o.val # <<>>

\* ------------------------------------------------- inbound events
AuthValues ==
    {EmptyStr, AuthNoSpace, AuthBearer, AuthBasic, AuthEmptyToken, AuthThreeParts}

HeaderKeys ==
    {HdrAuthorization, HdrAuthorizationLc, HdrHost, HdrHostUc,
     HdrDeviceId, HdrDeviceIdMixed, HdrAccept}

\* the values a header field may carry in an inbound event
HeaderValues(k) ==
    CASE k = HdrAuthorization -> AuthValues
      [] k = HdrAuthorizationLc -> {AuthBearer}
      [] k = HdrDeviceId -> {TrustedDevice, OtherDevice}
      [] k = HdrDeviceIdMixed -> {TrustedDevice}
      [] k = HdrAccept -> {AcceptValue}
      [] OTHER -> {HostValue}

\* event['headers']: a dict from header names (exact spelling) to values
HeaderMaps ==
    UNION { { h \in [K -> UNION {HeaderValues(k) : k \in K}] :
                \A k \in K : h[k] \in HeaderValues(k) } :
            K \in {K \in SUBSET HeaderKeys : Cardinality(K) <= MaxHeaders} }

Paths == {PrefixProtected, PathReports, PrefixAdminPanel, PathSearch, PathAdmin}

Methods == {"GET", "POST"}

BodyHi == <<"h", "i">>
BodyHiB64 == <<"a", "G", "k", "=">>
BodyBadB64 == <<"a", "b", "c">>

\* (body, isBase64Encoded) of an inbound event
BodyChoices ==
    {[body |-> None, isBase64Encoded |-> FALSE],
     [body |-> Some(BodyHi), isBase64Encoded |-> FALSE],
     [body |-> Some(BodyHiB64), isBase64Encoded |-> TRUE],
     [body |-> Some(BodyBadB64), isBase64Encoded |-> TRUE]}

\* the bodies sent with a method: a GET comes without a body, a POST with
\* one
BodiesOf(m) ==
    IF m = "GET"
    THEN {b \in BodyChoices : ~b.body.some}
    ELSE {b \in BodyChoices : b.body.some}

\* the query string of the inbound URL.  The handler is written against
\* the API Gateway proxy event (httpMethod, path, headers, body,
\* isBase64Encoded), which carries the query string apart from 'path', in
\* event['queryStringParameters']; None when the URL has no query string
QueryQ1 == <<"q", "=", "1">>
QueryChoices == {None, Some(QueryQ1)}

\* an event of the given parts
MakeEvent(h, p, m, b, q) ==
    [headers |-> h, path |-> p, httpMethod |-> m,
     body |-> b.body, isBase64Encoded |-> b.isBase64Encoded,
     queryStringParameters |-> q]

\* the event of one invocation; path is None when the event has no 'path'
Events ==
    UNION { { MakeEvent(h, p, m, b, q) :
                h \in HeaderMaps, p \in {None} \cup {Some(x) : x \in Paths},
                b \in BodiesOf(m), q \in QueryChoices } : m \in Methods }

NoEvent ==
    [headers |-> <<>>, path |-> None, httpMethod |-> "",
     body |-> None, isBase64Encoded |-> FALSE, queryStringParameters |-> None]

\* os.environ.get('PROTECTED_API_BASE_URL'): unset, empty or a base URL
Environments ==
    { [PROTECTED_API_BASE_URL |-> u] : u \in {None, Some(EmptyStr), Some(ProtectedBase)} }

\* ------------------------------------------------- collaborators
Usernames == {"alice", "bob"}
GroupNames == {"admin", "Admin"}
ProviderErrors == {"TooManyRequestsException", "InternalErrorException"}

\* outcomes of client.get_user(AccessToken=token)
GetUserOutcomes ==
    { [kind |-> "ok", Username |-> u, text |-> ""] : u \in Usernames }
    \cup { [kind |-> "NotAuthorizedException", Username |-> "", text |-> "NotAuthorizedException"] }
    \cup { [kind |-> "error", Username |-> "", text |-> t] : t \in ProviderErrors }

\* outcomes of client.admin_list_groups_for_user(Username, UserPoolId)
ListGroupsOutcomes ==
    { [kind |-> "ok", Groups |-> g, text |-> ""] : g \in SUBSET GroupNames }
    \cup { [kind |-> "NotAuthorizedException", Groups |-> {}, text |-> "NotAuthorizedException"] }
    \cup { [kind |-> "error", Groups |-> {}, text |-> t] : t \in ProviderErrors }

BackendStatuses == {200, 403, 503}
BackendHeaders == {"Content-Type: application/json"}
BackendTexts == {"backend-body"}
NetworkErrors == {"Read timed out", "Connection refused"}
UnexpectedErrors == {"unexpected"}

\* outcomes of requests.request(...)
BackendOutcomes ==
    { [kind |-> "response", status_code |-> s, headers |-> BackendHeaders, text |-> t] :
        s \in BackendStatuses, t \in BackendTexts }
    \cup { [kind |-> "RequestException", status_code |-> 0, headers |-> {}, text |-> t] :
             t \in NetworkErrors }
    \cup { [kind |-> "Exception", status_code |-> 0, headers |-> {}, text |-> t] :
             t \in UnexpectedErrors }

\* ------------------------------------------------- handler, pure parts
Reqs == {1, 2}

ProtectedTimeout == 5
DefaultTimeout == 10

\* json.dumps({'message': ...}) as the pieces whose concatenation it is
JsonMessage(parts) == <<"{\"message\": \"">> \o parts \o <<"\"}">>

Pending ==
    [returned |-> "pending", statusCode |-> 0, hasHeaders |-> FALSE,
     headers |-> {}, body |-> <<>>]

\* the handler falls off its end: Python returns None
ReturnsNone ==
    [returned |-> "None", statusCode |-> 0, hasHeaders |-> FALSE,
     headers |-> {}, body |-> <<>>]

\* return {'statusCode': code, 'body': json.dumps({'message': ...})}
Response(code, parts) ==
    [returned |-> "dict", statusCode |-> code, hasHeaders |-> FALSE,
     headers |-> {}, body |-> JsonMessage(parts)]

\* variant of PassThrough: a backend status of 500 or more is answered as
\* 502
PassThroughRemap5xx(o) ==
    [returned |-> "dict",
     statusCode |-> IF o.status_code >= 500 THEN 502 ELSE o.status_code,
     hasHeaders |-> TRUE, headers |-> o.headers, body |-> <<o.text>>]

\* return {'statusCode': r.status_code, 'headers': dict(r.headers), 'body': r.text}
PassThrough(o) ==
    [returned |-> "dict", statusCode |-> o.status_code, hasHeaders |-> TRUE,
     headers |-> o.headers, body |-> <<o.text>>]

\* variant of HeaderCheck: the token is the last piece of the split
\* ([-1] for [1]), so a value without a space is taken whole
HeaderCheckLastPiece(headers) ==
    LET auth_header == Get(headers, HdrAuthorization)
    IN  IF ~Truthy(auth_header)
        THEN [outcome |-> "missing", token |-> <<>>]
        ELSE LET parts == Split(auth_header.val, Space)
             IN  [outcome |-> "token", token |-> parts[Len(parts)]]

\* lines 13-29: read the Authorization header and take the token out of it
HeaderCheck(headers) ==
    LET auth_header == Get(headers, HdrAuthorization)
    IN  IF ~Truthy(auth_header)
        THEN [outcome |-> "missing", token |-> <<>>]
        ELSE LET parts == Split(auth_header.val, Space)
             IN  IF Len(parts) < 2
                 THEN [outcome |-> "malformed", token |-> <<>>]
                 ELSE [outcome |-> "token", token |-> parts[2]]

\* variant of HeaderMissingResponse: 403 for 401
HeaderMissingForbidden ==
    Response(403, <<"Authorization header is missing">>)

\* lines 16-19
HeaderMissingResponse ==
    Response(401, <<"Authorization header is missing">>)

\* lines 26-29
HeaderMalformedResponse ==
    Response(401, <<"Invalid Authorization header format">>)

\* lines 181-186: except client.exceptions.NotAuthorizedException
NotAuthorizedResponse ==
    Response(401, <<"Invalid token or authentication failed">>)

\* variant of InternalErrorResponse: a fixed message, without str(e)
InternalErrorNoText(text) ==
    Response(500, <<"Internal server error">>)

\* lines 187-192: except Exception as e
InternalErrorResponse(text) ==
    Response(500, <<"Internal server error: ", text>>)

\* lines 55-60
ConfigurationErrorResponse ==
    Response(500, <<"Configuration error: Protected API URL not set">>)

\* lines 69-72
DeniedGroupResponse ==
    Response(403, <<"Access denied: Not authorized for this resource (requires admin group)">>)

\* lines 77-80
DeniedDeviceResponse ==
    Response(403, <<"Access denied: Not authorized for this resource (requires admin group and trusted device)">>)

\* line 51: event.get('path', '/')
request_path(ev) == IF ev.path.some THEN ev.path.val ELSE PathRoot

\* line 64: event['headers'].get('x-device-id')
device_id(ev) == Get(ev.headers, HdrDeviceId)

\* variant of Policy: the first rule compares the path for equality with
\* '/protectedPath' instead of testing the prefix
PolicyExactPath(path, groups, device) ==
    IF path = PrefixProtected
    THEN IF "admin" \notin groups THEN "deny_group" ELSE "fall_through"
    ELSE IF StartsWith(path, PrefixAdminPanel)
         THEN IF "admin" \notin groups \/ device # Some(TrustedDevice)
              THEN "deny_device"
              ELSE "forward_protected"
         ELSE "forward_default"

\* variant of Policy: the second rule denies only when both conditions
\* fail ('and' for 'or' on line 75)
PolicyDenyBoth(path, groups, device) ==
    IF StartsWith(path, PrefixProtected)
    THEN IF "admin" \notin groups THEN "deny_group" ELSE "fall_through"
    ELSE IF StartsWith(path, PrefixAdminPanel)
         THEN IF "admin" \notin groups /\ device # Some(TrustedDevice)
              THEN "deny_device"
              ELSE "forward_protected"
         ELSE "forward_default"

\* variant of Policy: the second rule matches the prefix '/admin'
PolicyShortPrefix(path, groups, device) ==
    IF StartsWith(path, PrefixProtected)
    THEN IF "admin" \notin groups THEN "deny_group" ELSE "fall_through"
    ELSE IF StartsWith(path, PathAdmin)
         THEN IF "admin" \notin groups \/ device # Some(TrustedDevice)
              THEN "deny_device"
              ELSE "forward_protected"
         ELSE "forward_default"

\* variant of Policy: the second rule looks at the group only
PolicyNoDeviceCheck(path, groups, device) ==
    IF StartsWith(path, PrefixProtected)
    THEN IF "admin" \notin groups THEN "deny_group" ELSE "fall_through"
    ELSE IF StartsWith(path, PrefixAdminPanel)
         THEN IF "admin" \notin groups
              THEN "deny_device"
              ELSE "forward_protected"
         ELSE "forward_default"

\* lines 66-81 and 140: the if / elif / else over the path.  In the source
\* the forward to the protected API (lines 98-139) is indented under the
\* elif branch, so the first branch, when it does not deny, runs to the end
\* of the function.
Policy(path, groups, device) ==
    IF StartsWith(path, PrefixProtected)
    THEN IF "admin" \notin groups THEN "deny_group" ELSE "fall_through"
    ELSE IF StartsWith(path, PrefixAdminPanel)
         THEN IF "admin" \notin groups \/ device # Some(TrustedDevice)
              THEN "deny_device"
              ELSE "forward_protected"
         ELSE "forward_default"

\* variant of headers_to_forward: the key is compared as it is spelled,
\* without k.lower()
headers_to_forward_exact(headers) ==
    [k \in {k \in DOMAIN headers : k \notin {LcHost, LcAuthorization}}
        |-> headers[k]]

\* lines 102 and 148: the dict comprehension over event['headers']
headers_to_forward(headers) ==
    [k \in {k \in DOMAIN headers : Lower(k) \notin {LcHost, LcAuthorization}}
        |-> headers[k]]

\* lines 98 and 146: f"{base}{request_path}"
proxy_url(base, path) == base \o path

NoForward ==
    [target |-> "none", url |-> <<>>, headers |-> <<>>, timeout |-> 0]

\* the two forward branches of Authorize
ForwardStep(base, ev, target, timeout) ==
    [next |-> "forward", result |-> Pending,
     fwd |-> [target |-> target,
              url |-> proxy_url(base, request_path(ev)),
              headers |-> headers_to_forward(ev.headers),
              timeout |-> timeout]]

\* variant of Authorize: lines 55-60 are missing, the base URL is used as
\* it is
AuthorizeNoConfigCheck(environ, ev, groups) ==
    LET protected_api_base_url == environ.PROTECTED_API_BASE_URL
        decision == Policy(request_path(ev), groups, device_id(ev))
    IN  CASE decision = "deny_group" ->
               [next |-> "done", result |-> DeniedGroupResponse, fwd |-> NoForward]
          [] decision = "deny_device" ->
               [next |-> "done", result |-> DeniedDeviceResponse, fwd |-> NoForward]
          [] decision = "fall_through" ->
               [next |-> "done", result |-> ReturnsNone, fwd |-> NoForward]
          [] decision = "forward_protected" ->
               ForwardStep(protected_api_base_url.val, ev, "Protected", ProtectedTimeout)
          [] OTHER ->
               ForwardStep(external_service_url, ev, "Default", DefaultTimeout)

\* variant of Authorize: the base URL is checked where it is used, in the
\* branch that forwards to the protected backend
AuthorizeCheckLate(environ, ev, groups) ==
    LET protected_api_base_url == environ.PROTECTED_API_BASE_URL
        decision == Policy(request_path(ev), groups, device_id(ev))
    IN  CASE decision = "deny_group" ->
               [next |-> "done", result |-> DeniedGroupResponse, fwd |-> NoForward]
          [] decision = "deny_device" ->
               [next |-> "done", result |-> DeniedDeviceResponse, fwd |-> NoForward]
          [] decision = "fall_through" ->
               [next |-> "done", result |-> ReturnsNone, fwd |-> NoForward]
          [] decision = "forward_protected" ->
               IF ~Truthy(protected_api_base_url)
               THEN [next |-> "done", result |-> ConfigurationErrorResponse,
                     fwd |-> NoForward]
               ELSE ForwardStep(protected_api_base_url.val, ev, "Protected",
                                ProtectedTimeout)
          [] OTHER ->
               ForwardStep(external_service_url, ev, "Default", DefaultTimeout)

\* lines 51-102 and 140-148: what the handler does once the principal and
\* its groups are known, up to the outbound call
Authorize(environ, ev, groups) ==
    LET protected_api_base_url == environ.PROTECTED_API_BASE_URL
        decision == Policy(request_path(ev), groups, device_id(ev))
    IN  IF ~Truthy(protected_api_base_url)
        THEN [next |-> "done", result |-> ConfigurationErrorResponse, fwd |-> NoForward]
        ELSE CASE decision = "deny_group" ->
                    [next |-> "done", result |-> DeniedGroupResponse, fwd |-> NoForward]
               [] decision = "deny_device" ->
                    [next |-> "done", result |-> DeniedDeviceResponse, fwd |-> NoForward]
               [] decision = "fall_through" ->
                    [next |-> "done", result |-> ReturnsNone, fwd |-> NoForward]
               [] decision = "forward_protected" ->
                    [next |-> "forward", result |-> Pending,
                     fwd |-> [target |-> "Protected",
                              url |-> proxy_url(protected_api_base_url.val, request_path(ev)),
                              headers |-> headers_to_forward(ev.headers),
                              timeout |-> ProtectedTimeout]]
               [] OTHER ->
                    [next |-> "forward", result |-> Pending,
                     fwd |-> [target |-> "Default",
                              url |-> proxy_url(external_service_url, request_path(ev)),
                              headers |-> headers_to_forward(ev.headers),
                              timeout |-> DefaultTimeout]]

\* lines 110 and 154: base64.b64decode(body).decode('utf-8'), tabulated on
\* the bodies of BodyChoices
B64DecodeUtf8(body) ==
    CASE body = Some(BodyHiB64) -> [ok |-> TRUE, val |-> Some(BodyHi), err |-> ""]
      [] body = None ->
           [ok |-> FALSE, val |-> None,
            err |-> "argument should be a bytes-like object or ASCII string, not 'NoneType'"]
      [] OTHER -> [ok |-> FALSE, val |-> None, err |-> "Incorrect padding"]

\* lines 108-110 and 152-154: the body handed to requests.request
OutboundBody(ev) ==
    IF ev.isBase64Encoded
    THEN B64DecodeUtf8(ev.body)
    ELSE [ok |-> TRUE, val |-> ev.body, err |-> ""]

\* lines 128-139 and 168-179: the two except clauses of the forward
BadGatewayResponse(text) == Response(502, <<"Bad Gateway: ", text>>)

ForwardErrorResponse(target, text) ==
    IF target = "Protected"
    THEN Response(500, <<"Internal Server Error during forwarding: ", text>>)
    ELSE Response(500, <<"Internal Server Error during external forwarding: ", text>>)

\* variant of ForwardResult: without the except RequestException clause,
\* every failure of the call is answered by the generic handler
ForwardResultNoBadGateway(target, o) ==
    CASE o.kind = "response" -> PassThrough(o)
      [] OTHER -> ForwardErrorResponse(target, o.text)

\* lines 114-139 and 156-179: the response for an outcome of requests.request
ForwardResult(target, o) ==
    CASE o.kind = "response" -> PassThrough(o)
      [] o.kind = "RequestException" -> BadGatewayResponse(o.text)
      [] OTHER -> ForwardErrorResponse(target, o.text)

\* ------------------------------------------------- state
VARIABLES
    environ,      \* os.environ of the deployed function
    pc,           \* pc[r]: where invocation r of lambda_handler stands
    event,        \* event[r]: the inbound event of invocation r
    token,        \* token[r]: the token taken from the Authorization header
    username,     \* username[r]: response['Username'] of get_user
    user_groups,  \* user_groups[r]: the group names of the principal
    fwd,          \* fwd[r]: the outbound request the handler has built
    calls,        \* calls[r]: the collaborator calls made so far, in order
    result        \* result[r]: what lambda_handler returned

vars == <<environ, pc, event, token, username, user_groups, fwd, calls, result>>

Init ==
    /\ environ \in Environments
    /\ pc = [r \in Reqs |-> "idle"]
    /\ event = [r \in Reqs |-> NoEvent]
    /\ token = [r \in Reqs |-> None]
    /\ username = [r \in Reqs |-> ""]
    /\ user_groups = [r \in Reqs |-> {}]
    /\ fwd = [r \in Reqs |-> NoForward]
    /\ calls = [r \in Reqs |-> <<>>]
    /\ result = [r \in Reqs |-> Pending]

\* the invocation ends with the value `res`
Return(r, res) ==
    /\ pc' = [pc EXCEPT ![r] = "done"]
    /\ result' = [result EXCEPT ![r] = res]

\* lines 7-32: the handler is invoked with `ev`, checks the Authorization
\* header and takes the token
Invoke(r, ev) ==
    /\ event' = [event EXCEPT ![r] = ev]
    /\ LET h == HeaderCheck(ev.headers)
       IN  CASE h.outcome = "missing" ->
                  /\ Return(r, HeaderMissingResponse)
                  /\ UNCHANGED token
             [] h.outcome = "malformed" ->
                  /\ Return(r, HeaderMalformedResponse)
                  /\ UNCHANGED token
             [] OTHER ->
                  /\ token' = [token EXCEPT ![r] = Some(h.token)]
                  /\ pc' = [pc EXCEPT ![r] = "get_user"]
                  /\ UNCHANGED result
    /\ UNCHANGED <<environ, username, user_groups, fwd, calls>>

\* an idle context receives one of the events of `evs`
Start(r, evs) ==
    /\ pc[r] = "idle"
    /\ \E ev \in evs : Invoke(r, ev)

\* variant of GetUser: an error other than NotAuthorizedException leaves
\* the invocation at the call, which is then made again (at most twice)
GetUserRetry(r, o) ==
    /\ pc[r] = "get_user"
    /\ Len(calls[r]) < 2
    /\ calls' = [calls EXCEPT ![r] =
                    Append(@, [api |-> "get_user", AccessToken |-> token[r].val,
                               outcome |-> o])]
    /\ CASE o.kind = "ok" ->
              /\ username' = [username EXCEPT ![r] = o.Username]
              /\ pc' = [pc EXCEPT ![r] = "admin_list_groups_for_user"]
              /\ UNCHANGED result
         [] o.kind = "NotAuthorizedException" ->
              /\ Return(r, NotAuthorizedResponse)
              /\ UNCHANGED username
         [] OTHER ->
              /\ UNCHANGED <<pc, result, username>>
    /\ UNCHANGED <<environ, event, token, user_groups, fwd>>

\* variant of GetUser: a token that another invocation has had validated
\* is not validated again, the principal found then is reused
GetUserCached(r, o) ==
    /\ pc[r] = "get_user"
    /\ IF \E q \in Reqs \ {r} : token[q] = token[r] /\ username[q] # ""
       THEN /\ username' = [username EXCEPT ![r] =
                   username[CHOOSE q \in Reqs \ {r} :
                               token[q] = token[r] /\ username[q] # ""]]
            /\ pc' = [pc EXCEPT ![r] = "admin_list_groups_for_user"]
            /\ UNCHANGED <<calls, result>>
       ELSE /\ calls' = [calls EXCEPT ![r] =
                           Append(@, [api |-> "get_user",
                                      AccessToken |-> token[r].val,
                                      outcome |-> o])]
            /\ CASE o.kind = "ok" ->
                      /\ username' = [username EXCEPT ![r] = o.Username]
                      /\ pc' = [pc EXCEPT ![r] = "admin_list_groups_for_user"]
                      /\ UNCHANGED result
                 [] o.kind = "NotAuthorizedException" ->
                      /\ Return(r, NotAuthorizedResponse)
                      /\ UNCHANGED username
                 [] OTHER ->
                      /\ Return(r, InternalErrorResponse(o.text))
                      /\ UNCHANGED username
    /\ UNCHANGED <<environ, event, token, user_groups, fwd>>

\* lines 36-39 and 181-192: client.get_user(AccessToken=token)
GetUser(r, o) ==
    /\ pc[r] = "get_user"
    /\ calls' = [calls EXCEPT ![r] =
                    Append(@, [api |-> "get_user", AccessToken |-> token[r].val,
                               outcome |-> o])]
    /\ CASE o.kind = "ok" ->
              /\ username' = [username EXCEPT ![r] = o.Username]
              /\ pc' = [pc EXCEPT ![r] = "admin_list_groups_for_user"]
              /\ UNCHANGED result
         [] o.kind = "NotAuthorizedException" ->
              /\ Return(r, NotAuthorizedResponse)
              /\ UNCHANGED username
         [] OTHER ->
              /\ Return(r, InternalErrorResponse(o.text))
              /\ UNCHANGED username
    /\ UNCHANGED <<environ, event, token, user_groups, fwd>>

\* lines 42-102, 140-148 and 181-192: client.admin_list_groups_for_user(...)
\* and, when it answers, the configuration check and the policy
ListGroups(r, o) ==
    /\ pc[r] = "admin_list_groups_for_user"
    /\ calls' = [calls EXCEPT ![r] =
                    Append(@, [api |-> "admin_list_groups_for_user",
                               Username |-> username[r], outcome |-> o])]
    /\ CASE o.kind = "ok" ->
              LET a == Authorize(environ, event[r], o.Groups)
              IN  /\ user_groups' = [user_groups EXCEPT ![r] = o.Groups]
                  /\ fwd' = [fwd EXCEPT ![r] = a.fwd]
                  /\ pc' = [pc EXCEPT ![r] = a.next]
                  /\ result' = [result EXCEPT ![r] = a.result]
         [] o.kind = "NotAuthorizedException" ->
              /\ Return(r, NotAuthorizedResponse)
              /\ UNCHANGED <<user_groups, fwd>>
         [] OTHER ->
              /\ Return(r, InternalErrorResponse(o.text))
              /\ UNCHANGED <<user_groups, fwd>>
    /\ UNCHANGED <<environ, event, token, username>>

\* lines 104-139 and 150-179: the body is prepared and the request is sent
\* to the backend; a failure to prepare the body ends the invocation
\* without a call
Forward(r, o) ==
    /\ pc[r] = "forward"
    /\ LET data == OutboundBody(event[r])
       IN  IF ~data.ok
           THEN /\ Return(r, ForwardErrorResponse(fwd[r].target, data.err))
                /\ UNCHANGED calls
           ELSE /\ calls' = [calls EXCEPT ![r] =
                               Append(@, [api |-> "requests.request",
                                          method |-> event[r].httpMethod,
                                          url |-> fwd[r].url,
                                          headers |-> fwd[r].headers,
                                          data |-> data.val,
                                          timeout |-> fwd[r].timeout,
                                          outcome |-> o])]
                /\ Return(r, ForwardResult(fwd[r].target, o))
    /\ UNCHANGED <<environ, event, token, username, user_groups, fwd>>

\* one invocation, with the full range of inbound events
Solo == {1}

Next ==
    \/ \E r \in Solo : Start(r, Events)
    \/ \E r \in Solo, o \in GetUserOutcomes : GetUser(r, o)
    \/ \E r \in Solo, o \in ListGroupsOutcomes : ListGroups(r, o)
    \/ \E r \in Solo, o \in BackendOutcomes : Forward(r, o)

Spec == Init /\ [][Next]_vars
\* ------------------------------------------------- vocabulary of the properties
Done(r) == pc[r] = "done"

ProviderApis == {"get_user", "admin_list_groups_for_user"}

\* the outbound calls to a backend that invocation r has made
OutboundCalls(r) ==
    { i \in DOMAIN calls[r] : calls[r][i].api = "requests.request" }

\* both provider calls of invocation r have answered: the principal is known
Authenticated(r) ==
    /\ Len(calls[r]) >= 2
    /\ calls[r][1].api = "get_user" /\ calls[r][1].outcome.kind = "ok"
    /\ calls[r][2].api = "admin_list_groups_for_user"
    /\ calls[r][2].outcome.kind = "ok"

\* PROTECTED_API_BASE_URL is set to a non-empty value
ProtectedConfigured == Truthy(environ.PROTECTED_API_BASE_URL)

\* two characters are the same letter in either case
SameLetter(c, d) ==
    \/ c = d
    \/ \E i \in 1..Len(UpperChars) : {c, d} = {UpperChars[i], LowerChars[i]}

\* two header names are equal when letter case is ignored
SameName(a, b) ==
    /\ Len(a) = Len(b)
    /\ \A i \in 1..Len(a) : SameLetter(a[i], b[i])

\* the value has the form 'Bearer <token>' with a non-empty token
BearerForm(v) ==
    /\ Len(v) > Len(SchemeBearer) + 1
    /\ SubSeq(v, 1, Len(SchemeBearer)) = SchemeBearer
    /\ v[Len(SchemeBearer) + 1] = Space
    /\ \A i \in (Len(SchemeBearer) + 2)..Len(v) : v[i] # Space

HasSpace(v) == \E i \in 1..Len(v) : v[i] = Space

\* ------------------------------------------------- C1
\* C1: with PROTECTED_API_BASE_URL configured, an invocation for an
\* authenticated principal in group 'admin' and a path that starts with
\* '/protectedPath' ends having built the forward to the protected backend
\* at protected base URL + path, having returned a response, and, when the
\* backend answered, with the backend's status.
C1_AdminReachesProtectedForward ==
    \A r \in Reqs :
        ( /\ Done(r)
          /\ Authenticated(r)
          /\ ProtectedConfigured
          /\ "admin" \in user_groups[r]
          /\ StartsWith(request_path(event[r]), PrefixProtected) )
        => /\ fwd[r].target = "Protected"
           /\ fwd[r].url = environ.PROTECTED_API_BASE_URL.val \o request_path(event[r])
           /\ result[r].returned = "dict"
           /\ \A i \in OutboundCalls(r) :
                 /\ calls[r][i].url = fwd[r].url
                 /\ calls[r][i].outcome.kind = "response"
                       => result[r].statusCode = calls[r][i].outcome.status_code

\* ------------------------------------------------- C2
\* C2: every invocation that has ended has returned a structured response
\* that carries a statusCode; it has neither raised nor returned nothing.
C2_AlwaysStructuredResponse ==
    \A r \in Reqs :
        Done(r) => /\ result[r].returned = "dict"
                   /\ result[r].statusCode \in 100..599

\* ------------------------------------------------- C3
\* a header name that is 'host' or 'authorization' in some letter case
HostOrAuthorization(k) == SameName(k, LcHost) \/ SameName(k, LcAuthorization)

\* h is exactly the part of the inbound headers whose names are neither
\* Host nor Authorization in any letter case, values unchanged
SanitizedFrom(h, inbound) ==
    /\ DOMAIN h = { k \in DOMAIN inbound : ~HostOrAuthorization(k) }
    /\ \A k \in DOMAIN h : h[k] = inbound[k]

\* C3: for both targets, the headers of the outbound request the handler
\* builds, and of every outbound call it makes, are exactly the inbound
\* headers whose name is neither 'host' nor 'authorization' when letter
\* case is ignored, with their values; none is a Host or Authorization
\* header.
C3_OutboundHeadersSanitized ==
    \A r \in Reqs :
        /\ fwd[r].target # "none" => SanitizedFrom(fwd[r].headers, event[r].headers)
        /\ \A i \in OutboundCalls(r) :
              /\ SanitizedFrom(calls[r][i].headers, event[r].headers)
              /\ \A k \in DOMAIN calls[r][i].headers : ~HostOrAuthorization(k)

\* an outbound call was made for an event that carried Authorization, a
\* Host header in capitals and one more header, and only the last went out
C3_Witness ==
    \E r \in Reqs :
        /\ DOMAIN event[r].headers = {HdrAuthorization, HdrHostUc, HdrAccept}
        /\ \E i \in OutboundCalls(r) :
              /\ DOMAIN calls[r][i].headers = {HdrAccept}
              /\ calls[r][i].headers[HdrAccept] = AcceptValue

\* ------------------------------------------------- C4
\* invocation r is over, for an authenticated principal outside group
\* 'admin' and a path that starts with '/protectedPath'
NonAdminOnProtectedPath(r) ==
    /\ Done(r)
    /\ Authenticated(r)
    /\ "admin" \notin user_groups[r]
    /\ StartsWith(request_path(event[r]), PrefixProtected)

\* the invocation answered 403 and built and made no outbound request
Denied403(r) ==
    /\ result[r].returned = "dict"
    /\ result[r].statusCode = 403
    /\ fwd[r].target = "none"
    /\ OutboundCalls(r) = {}

\* C4 as stated: an authenticated principal outside group 'admin' on a
\* path that starts with '/protectedPath' gets 403 and no outbound request
\* is made.
C4_NonAdminDenied ==
    \A r \in Reqs : NonAdminOnProtectedPath(r) => Denied403(r)

\* C4 as amended: the same, when PROTECTED_API_BASE_URL is set to a
\* non-empty value.
C4_NonAdminDeniedWhenConfigured ==
    \A r \in Reqs :
        (NonAdminOnProtectedPath(r) /\ ProtectedConfigured) => Denied403(r)

\* a principal in group 'Admin' only asked for '/protectedPath/reports'
\* and got 403
C4_Witness ==
    \E r \in Reqs :
        /\ NonAdminOnProtectedPath(r)
        /\ ProtectedConfigured
        /\ user_groups[r] = {"Admin"}
        /\ request_path(event[r]) = PathReports
        /\ result[r] = DeniedGroupResponse

\* ------------------------------------------------- C5
\* invocation r is over, for an authenticated principal and a path that
\* starts with '/admin-panel'
OnAdminPanel(r) ==
    /\ Done(r)
    /\ Authenticated(r)
    /\ StartsWith(request_path(event[r]), PrefixAdminPanel)

\* the principal is in group 'admin' and the header x-device-id is
\* 'trusted-device-123'
AdminOnTrustedDevice(r) ==
    /\ "admin" \in user_groups[r]
    /\ HdrDeviceId \in DOMAIN event[r].headers
    /\ event[r].headers[HdrDeviceId] = TrustedDevice

\* the handler built the forward to the protected backend at protected
\* base URL + path, and every outbound call went there
ForwardedToProtected(r) ==
    /\ fwd[r].target = "Protected"
    /\ fwd[r].url = environ.PROTECTED_API_BASE_URL.val \o request_path(event[r])
    /\ \A i \in OutboundCalls(r) : calls[r][i].url = fwd[r].url

AdminPanelRule(r) ==
    IF AdminOnTrustedDevice(r) THEN ForwardedToProtected(r) ELSE Denied403(r)

\* C5 as stated: on a path that starts with '/admin-panel' an
\* authenticated request is forwarded to the protected backend if and only
\* if the principal is in group 'admin' and x-device-id is
\* 'trusted-device-123'; otherwise it gets 403 and nothing is forwarded.
C5_AdminPanelRule ==
    \A r \in Reqs : OnAdminPanel(r) => AdminPanelRule(r)

\* C5 as amended: the same, when PROTECTED_API_BASE_URL is set to a
\* non-empty value.
C5_AdminPanelRuleWhenConfigured ==
    \A r \in Reqs : (OnAdminPanel(r) /\ ProtectedConfigured) => AdminPanelRule(r)

\* an admin on the trusted device asked for '/admin-panel' and the call
\* went to the protected backend
C5_Witness ==
    \E r \in Reqs :
        /\ OnAdminPanel(r)
        /\ AdminOnTrustedDevice(r)
        /\ ForwardedToProtected(r)
        /\ \E i \in OutboundCalls(r) :
              calls[r][i].url = ProtectedBase \o PrefixAdminPanel

\* ------------------------------------------------- C6
\* invocation r is over, for an authenticated principal and a path that
\* matches neither '/protectedPath' nor '/admin-panel'
OnUnmatchedPath(r) ==
    /\ Done(r)
    /\ Authenticated(r)
    /\ ~StartsWith(request_path(event[r]), PrefixProtected)
    /\ ~StartsWith(request_path(event[r]), PrefixAdminPanel)

\* the handler built the forward to the default backend, every outbound
\* call went there, and the policy denied nothing
ForwardedToDefault(r) ==
    /\ fwd[r].target = "Default"
    /\ fwd[r].url = external_service_url \o request_path(event[r])
    /\ \A i \in OutboundCalls(r) : calls[r][i].url = fwd[r].url
    /\ result[r] \notin {DeniedGroupResponse, DeniedDeviceResponse}

\* C6 as stated: whatever the groups and the device id, an authenticated
\* request on a path that matches no specific rule is forwarded to the
\* default backend, never to the protected one, and is never denied.
C6_UnmatchedPathToDefault ==
    \A r \in Reqs : OnUnmatchedPath(r) => ForwardedToDefault(r)

\* C6 as amended: the same, when PROTECTED_API_BASE_URL is set to a
\* non-empty value.
C6_UnmatchedPathToDefaultWhenConfigured ==
    \A r \in Reqs : (OnUnmatchedPath(r) /\ ProtectedConfigured) => ForwardedToDefault(r)

\* a principal in no group, without a device id, asked for '/admin' and
\* the call went to the default backend
C6_Witness ==
    \E r \in Reqs :
        /\ OnUnmatchedPath(r)
        /\ user_groups[r] = {}
        /\ HdrDeviceId \notin DOMAIN event[r].headers
        /\ request_path(event[r]) = PathAdmin
        /\ \E i \in OutboundCalls(r) :
              calls[r][i].url = external_service_url \o PathAdmin

\* ------------------------------------------------- C7
\* no header named Authorization, in any letter case, carries a value
NoAuthorizationValue(headers) ==
    \A k \in DOMAIN headers : SameName(k, LcAuthorization) => headers[k] = EmptyStr

\* the invocation ended with status `code` before any collaborator call
RejectedBeforeProvider(r, code) ==
    /\ Done(r)
    /\ result[r].returned = "dict"
    /\ result[r].statusCode = code
    /\ calls[r] = <<>>

\* C7: an invocation whose headers carry no Authorization value ends with
\* 401, whatever its path, method, body and other headers.
C7_MissingHeader401 ==
    \A r \in Reqs :
        (pc[r] # "idle" /\ NoAuthorizationValue(event[r].headers))
        => RejectedBeforeProvider(r, 401)

\* a POST with a base64 body, a device id and a Host header but no
\* Authorization header ended with the 'missing' response
C7_Witness ==
    \E r \in Reqs :
        /\ Done(r)
        /\ DOMAIN event[r].headers = {HdrHost, HdrDeviceId}
        /\ event[r].httpMethod = "POST"
        /\ event[r].isBase64Encoded
        /\ event[r].path = Some(PrefixAdminPanel)
        /\ result[r] = HeaderMissingResponse

\* ------------------------------------------------- C8
\* the Authorization value, as the handler reads it
AuthorizationValue(r) == Get(event[r].headers, HdrAuthorization)

\* C8: an Authorization value that contains a space but is not
\* 'Bearer <token>' ends the invocation with the 401 'malformed' response
\* and no token reaches the identity provider.
C8_NonBearerRejected ==
    \A r \in Reqs :
        ( /\ pc[r] # "idle"
          /\ AuthorizationValue(r).some
          /\ HasSpace(AuthorizationValue(r).val)
          /\ ~BearerForm(AuthorizationValue(r).val) )
        => /\ RejectedBeforeProvider(r, 401)
           /\ result[r] = HeaderMalformedResponse

\* ------------------------------------------------- C9
\* C9: a non-empty Authorization value without a space ends the invocation
\* with 401 and the identity provider is not called.
C9_NoSpace401 ==
    \A r \in Reqs :
        ( /\ pc[r] # "idle"
          /\ AuthorizationValue(r).some
          /\ AuthorizationValue(r).val # EmptyStr
          /\ ~HasSpace(AuthorizationValue(r).val) )
        => RejectedBeforeProvider(r, 401)

\* 'BearerXYZ' ended with the 'invalid format' response
C9_Witness ==
    \E r \in Reqs :
        /\ Done(r)
        /\ AuthorizationValue(r) = Some(AuthNoSpace)
        /\ result[r] = HeaderMalformedResponse
        /\ calls[r] = <<>>

\* ------------------------------------------------- C10
\* call i of invocation r is a call to the identity provider
ProviderCall(r, i) == calls[r][i].api \in ProviderApis

\* the body of the response contains `text`
BodyCarries(r, text) ==
    \E j \in DOMAIN result[r].body : result[r].body[j] = text

\* the invocation ended with status `code` right after call i, without a
\* policy decision and without a forward
EndedAfterCall(r, i, code) ==
    /\ Done(r)
    /\ i = Len(calls[r])
    /\ result[r].returned = "dict"
    /\ result[r].statusCode = code
    /\ fwd[r].target = "none"
    /\ OutboundCalls(r) = {}
    /\ result[r] \notin {DeniedGroupResponse, DeniedDeviceResponse}

\* C10: when the identity provider rejects the token as not authorized
\* the response is 401; when it fails with any other error, in get_user or
\* in the group listing, the response is 500 and its message carries the
\* provider's error text; in both cases the invocation ends there, with no
\* policy decision and nothing forwarded.
C10_ProviderOutcomes ==
    \A r \in Reqs :
        \A i \in DOMAIN calls[r] :
            ProviderCall(r, i) =>
                /\ calls[r][i].outcome.kind = "NotAuthorizedException"
                      => EndedAfterCall(r, i, 401)
                /\ calls[r][i].outcome.kind = "error"
                      => /\ EndedAfterCall(r, i, 500)
                         /\ BodyCarries(r, calls[r][i].outcome.text)

\* with a well-formed header, get_user answered and the group listing then
\* failed with an error whose text is in the 500 response
C10_Witness ==
    \E r \in Reqs :
        /\ BearerForm(AuthorizationValue(r).val)
        /\ Len(calls[r]) = 2
        /\ calls[r][1].outcome.kind = "ok"
        /\ calls[r][2].outcome.kind = "error"
        /\ result[r] = InternalErrorResponse("TooManyRequestsException")

\* ------------------------------------------------- C11
\* the rule the path matches targets the protected backend and its
\* conditions on the principal and the device hold
RoutedToProtected(r) ==
    /\ "admin" \in user_groups[r]
    /\ \/ StartsWith(request_path(event[r]), PrefixProtected)
       \/ /\ StartsWith(request_path(event[r]), PrefixAdminPanel)
          /\ AdminOnTrustedDevice(r)

\* the invocation answered 500 and built and made no outbound request
Failed500NoForward(r) ==
    /\ result[r].returned = "dict"
    /\ result[r].statusCode = 500
    /\ fwd[r].target = "none"
    /\ OutboundCalls(r) = {}

\* C11: when PROTECTED_API_BASE_URL is absent (unset or empty), every
\* authenticated request that the policy routes to the protected backend
\* is answered 500 and no outbound call is attempted.
C11_MissingProtectedUrl500 ==
    \A r \in Reqs :
        (Authenticated(r) /\ ~ProtectedConfigured /\ RoutedToProtected(r))
        => /\ Done(r)
           /\ Failed500NoForward(r)

\* with the variable unset, an admin on the trusted device asked for
\* '/admin-panel' and got the configuration error
C11_Witness ==
    \E r \in Reqs :
        /\ environ.PROTECTED_API_BASE_URL = None
        /\ Authenticated(r)
        /\ AdminOnTrustedDevice(r)
        /\ request_path(event[r]) = PrefixAdminPanel
        /\ result[r] = ConfigurationErrorResponse
        /\ calls[r][Len(calls[r])].api # "requests.request"

\* ------------------------------------------------- C12
\* the handler reached the forward step but the body could not be
\* prepared, so no call was made
ForwardFailedBeforeCall(r) ==
    /\ Done(r)
    /\ fwd[r].target # "none"
    /\ OutboundCalls(r) = {}

\* C12: for either target, an outbound call that fails with a network or
\* timeout error is answered 502 with the error text in the message; any
\* other failure raised in the forward step, by the call or while the body
\* is prepared, is answered 500.
C12_ForwardFailures ==
    \A r \in Reqs :
        /\ \A i \in OutboundCalls(r) :
              /\ calls[r][i].outcome.kind = "RequestException"
                    => /\ Done(r)
                       /\ result[r].returned = "dict"
                       /\ result[r].statusCode = 502
                       /\ BodyCarries(r, calls[r][i].outcome.text)
              /\ calls[r][i].outcome.kind = "Exception"
                    => /\ Done(r)
                       /\ result[r].returned = "dict"
                       /\ result[r].statusCode = 500
        /\ ForwardFailedBeforeCall(r)
              => /\ result[r].returned = "dict"
                 /\ result[r].statusCode = 500

\* a call to the default backend timed out and the answer is 502 with the
\* text of the error
C12_Witness ==
    \E r \in Reqs :
        /\ fwd[r].target = "Default"
        /\ \E i \in OutboundCalls(r) :
              /\ calls[r][i].outcome.kind = "RequestException"
              /\ calls[r][i].outcome.text = "Read timed out"
        /\ result[r] = BadGatewayResponse("Read timed out")

\* ------------------------------------------------- C13
\* C13: whenever the outbound call returns a response, for either target
\* and any status, the answer has exactly the backend's status code,
\* headers and body.
C13_PassThrough ==
    \A r \in Reqs :
        \A i \in OutboundCalls(r) :
            calls[r][i].outcome.kind = "response"
            => /\ Done(r)
               /\ result[r].returned = "dict"
               /\ result[r].statusCode = calls[r][i].outcome.status_code
               /\ result[r].hasHeaders
               /\ result[r].headers = calls[r][i].outcome.headers
               /\ result[r].body = <<calls[r][i].outcome.text>>

\* the protected backend answered 503 and 503, not a status of the
\* gateway, is what the handler returned
C13_Witness ==
    \E r \in Reqs :
        /\ fwd[r].target = "Protected"
        /\ \E i \in OutboundCalls(r) :
              /\ calls[r][i].outcome.kind = "response"
              /\ calls[r][i].outcome.status_code = 503
        /\ result[r].statusCode = 503

\* ------------------------------------------------- C14
\* the base URL of a target
BaseUrl(target) ==
    IF target = "Protected"
    THEN environ.PROTECTED_API_BASE_URL.val
    ELSE external_service_url

EndsWith(s, suffix) ==
    /\ Len(s) >= Len(suffix)
    /\ SubSeq(s, Len(s) - Len(suffix) + 1, Len(s)) = suffix

\* the inbound URL of invocation r had a query string
HasQuery(r) == event[r].queryStringParameters.some

\* C14: for both targets the outbound URL is the target's base URL followed
\* by the request path, and a query string of the inbound request is on the
\* outbound URL unchanged.
C14_UrlPreservesPathAndQuery ==
    \A r \in Reqs :
        fwd[r].target # "none"
        => /\ fwd[r].url = BaseUrl(fwd[r].target) \o request_path(event[r])
           /\ \A i \in OutboundCalls(r) : calls[r][i].url = fwd[r].url
           /\ HasQuery(r)
                 => EndsWith(fwd[r].url, <<"?">> \o event[r].queryStringParameters.val)

\* ------------------------------------------------- concurrent invocations
\* the header sets of the events handled side by side: the bearer header
\* and the device id, each header name in two spellings, and a second token
ConcHeaderMaps ==
    { (HdrAuthorization :> AuthBearer),
      (HdrAuthorization :> AuthBasic),
      (HdrAuthorizationLc :> AuthBearer),
      (HdrAuthorization :> AuthBearer) @@ (HdrDeviceId :> TrustedDevice),
      (HdrAuthorization :> AuthBearer) @@ (HdrDeviceIdMixed :> TrustedDevice) }

ConcEvents ==
    { MakeEvent(h, Some(p), "GET", [body |-> None, isBase64Encoded |-> FALSE], None) :
        h \in ConcHeaderMaps, p \in {PrefixAdminPanel, PathSearch} }

\* every context may be invoked, and the steps of the invocations
\* interleave in any order
NextConc ==
    \/ \E r \in Reqs : Start(r, ConcEvents)
    \/ \E r \in Reqs, o \in GetUserOutcomes : GetUser(r, o)
    \/ \E r \in Reqs, o \in ListGroupsOutcomes : ListGroups(r, o)
    \/ \E r \in Reqs, o \in BackendOutcomes : Forward(r, o)

SpecConc == Init /\ [][NextConc]_vars

\* ------------------------------------------------- C15
\* the two header mappings differ at most in the letter case of their names
SameHeadersUpToCase(h1, h2) ==
    \E f \in [DOMAIN h1 -> DOMAIN h2] :
        /\ \A k \in DOMAIN h2 : \E j \in DOMAIN h1 : f[j] = k
        /\ \A j, k \in DOMAIN h1 : f[j] = f[k] => j = k
        /\ \A k \in DOMAIN h1 : SameName(k, f[k]) /\ h1[k] = h2[f[k]]

\* the two events differ at most in the letter case of header names
CaseVariants(e1, e2) ==
    /\ e1.path = e2.path
    /\ e1.httpMethod = e2.httpMethod
    /\ e1.body = e2.body
    /\ e1.isBase64Encoded = e2.isBase64Encoded
    /\ e1.queryStringParameters = e2.queryStringParameters
    /\ SameHeadersUpToCase(e1.headers, e2.headers)

\* the answers the collaborators gave to invocation r, in order
Outcomes(r) == [i \in 1..Len(calls[r]) |-> calls[r][i].outcome]

\* the header check has run
HeaderChecked(r) == pc[r] # "idle"

\* the policy has been evaluated for an authenticated principal
Decided(r) == Authenticated(r) /\ pc[r] \in {"forward", "done"}

\* C15: two requests that differ only in the letter case of header names
\* get the same authentication result, the same policy decision for the
\* same principal, and the same status for the same collaborator answers.
C15_HeaderNamesCaseInsensitive ==
    \A r1, r2 \in Reqs :
        (HeaderChecked(r1) /\ HeaderChecked(r2) /\ CaseVariants(event[r1], event[r2]))
        => /\ RejectedBeforeProvider(r1, 401) <=> RejectedBeforeProvider(r2, 401)
           /\ (Decided(r1) /\ Decided(r2) /\ user_groups[r1] = user_groups[r2])
                 => /\ fwd[r1].target = fwd[r2].target
                    /\ Denied403(r1) <=> Denied403(r2)
           /\ (Done(r1) /\ Done(r2) /\ Outcomes(r1) = Outcomes(r2))
                 => result[r1].statusCode = result[r2].statusCode

\* ------------------------------------------------- C16
\* the conditions of the rule that the path matches hold for the principal
\* and the device of invocation r
PolicyAllows(r) ==
    IF StartsWith(request_path(event[r]), PrefixProtected)
    THEN "admin" \in user_groups[r]
    ELSE StartsWith(request_path(event[r]), PrefixAdminPanel)
            => AdminOnTrustedDevice(r)

\* the collaborator calls of invocation r are a prefix of get_user, group
\* listing, outbound call, each made only after the one before succeeded,
\* and the outbound call only after the policy allowed the path
StepsInOrder(r) ==
    /\ Len(calls[r]) <= 3
    /\ Len(calls[r]) >= 1 => calls[r][1].api = "get_user"
    /\ Len(calls[r]) >= 2 => /\ calls[r][2].api = "admin_list_groups_for_user"
                             /\ calls[r][1].outcome.kind = "ok"
    /\ Len(calls[r]) >= 3 => /\ calls[r][3].api = "requests.request"
                             /\ calls[r][2].outcome.kind = "ok"
    /\ pc[r] = "get_user" => calls[r] = <<>>
    /\ pc[r] = "admin_list_groups_for_user" => Len(calls[r]) = 1
    /\ (pc[r] = "forward" \/ OutboundCalls(r) # {})
          => Authenticated(r) /\ PolicyAllows(r) /\ fwd[r].target # "none"

\* the answers the gateway itself gives with 401 or 403
GatewayRejections ==
    {HeaderMissingResponse, HeaderMalformedResponse, NotAuthorizedResponse,
     DeniedGroupResponse, DeniedDeviceResponse}

\* C16 as stated: the steps follow the order Start, Authenticating,
\* Authorizing, Forwarding, End, and every request answered with 401 or 403
\* has made no outbound call.
C16_StepOrder ==
    \A r \in Reqs :
        /\ StepsInOrder(r)
        /\ (Done(r) /\ result[r].statusCode \in {401, 403}) => OutboundCalls(r) = {}

\* C16 as amended: the steps follow that order, and every request that the
\* gateway itself answers with 401 or 403 (failed authentication, policy
\* denial) has made no outbound call; a 401 or 403 returned after an
\* outbound call is the backend's own status.
C16_StepOrderGatewayRejections ==
    \A r \in Reqs :
        /\ StepsInOrder(r)
        /\ (Done(r) /\ result[r] \in GatewayRejections) => OutboundCalls(r) = {}
        /\ (Done(r) /\ result[r].statusCode \in {401, 403} /\ OutboundCalls(r) # {})
              => /\ calls[r][3].outcome.kind = "response"
                 /\ calls[r][3].outcome.status_code = result[r].statusCode

\* an invocation made its three calls in order and ended with the
\* backend's 403, and the policy had allowed it
C16_Witness ==
    \E r \in Reqs :
        /\ Done(r)
        /\ Len(calls[r]) = 3
        /\ calls[r][3].api = "requests.request"
        /\ PolicyAllows(r)
        /\ StartsWith(request_path(event[r]), PrefixAdminPanel)
        /\ result[r].statusCode = 403

\* ------------------------------------------------- C17
\* the decision is Allow with the target `target`: the forward to that
\* target, and to no other, has been built
AllowedTo(r, target) ==
    /\ fwd[r].target = target
    /\ result[r] \notin {DeniedGroupResponse, DeniedDeviceResponse}

\* the outcome of the first rule, in the order '/protectedPath',
\* '/admin-panel', default, whose prefix the path starts with
FirstMatchOutcome(r) ==
    IF StartsWith(request_path(event[r]), PrefixProtected)
    THEN IF "admin" \in user_groups[r]
         THEN AllowedTo(r, "Protected")
         ELSE Denied403(r) /\ result[r] = DeniedGroupResponse
    ELSE IF StartsWith(request_path(event[r]), PrefixAdminPanel)
         THEN IF AdminOnTrustedDevice(r)
              THEN AllowedTo(r, "Protected")
              ELSE Denied403(r) /\ result[r] = DeniedDeviceResponse
         ELSE AllowedTo(r, "Default")

\* C17: once the policy has been evaluated (principal known, protected
\* base URL configured) the decision is that of the first matching rule,
\* and it is either an Allow with exactly one target or a Deny.
C17_FirstMatchTotal ==
    \A r \in Reqs :
        (Decided(r) /\ ProtectedConfigured)
        => /\ FirstMatchOutcome(r)
           /\ \/ fwd[r].target \in {"Protected", "Default"}
              \/ Denied403(r)

\* ------------------------------------------------- C18
FailedOutcome(o) == o.kind \notin {"ok", "response"}

\* each collaborator has been called at most once by invocation r, and a
\* call that failed is the last one, with the invocation over
NoRetry(r) ==
    /\ \A i, j \in DOMAIN calls[r] : calls[r][i].api = calls[r][j].api => i = j
    /\ \A i \in DOMAIN calls[r] :
          FailedOutcome(calls[r][i].outcome) => i = Len(calls[r]) /\ Done(r)

\* an invocation that is over stays over and makes no further call
StaysDone(r) == Done(r) => pc'[r] = "done" /\ calls'[r] = calls[r] /\ result'[r] = result[r]

\* C18: within one request the token introspection, the group listing and
\* the outbound call are each made at most once, and after one of them
\* fails no further collaborator call is made before (or after) the
\* terminal response.
C18_NoRetry ==
    /\ [](\A r \in Reqs : NoRetry(r))
    /\ [][\A r \in Reqs : StaysDone(r)]_vars

\* the outbound call timed out after both provider calls had answered, and
\* it is the third and last call
C18_Witness ==
    \E r \in Reqs :
        /\ Done(r)
        /\ Len(calls[r]) = 3
        /\ calls[r][3].outcome.kind = "RequestException"
        /\ result[r].statusCode = 502

\* ------------------------------------------------- C19
\* everything the handler holds for invocation r
Context(r) ==
    <<pc[r], event[r], token[r], username[r], user_groups[r], fwd[r],
      calls[r], result[r]>>

\* the calls of invocation r carry its own token and its own principal,
\* and the groups it decides on are those of its own group listing
UsesOwnData(r) ==
    /\ Len(calls[r]) >= 1
          => calls[r][1].AccessToken = HeaderCheck(event[r].headers).token
    /\ Len(calls[r]) >= 2
          => calls[r][2].Username = calls[r][1].outcome.Username
    /\ Decided(r) => user_groups[r] = calls[r][2].outcome.Groups

\* an invocation whose header yields a token and that is past the
\* introspection has made its own get_user call
OwnIntrospection(r) ==
    (HeaderCheck(event[r].headers).outcome = "token"
        /\ pc[r] \notin {"idle", "get_user"})
    => Len(calls[r]) >= 1 /\ calls[r][1].api = "get_user"

\* two invocations with the same event and the same collaborator answers
\* stand at the same place with the same outbound request and response
SameInputsSameOutput(r1, r2) ==
    (HeaderChecked(r1) /\ HeaderChecked(r2)
        /\ event[r1] = event[r2] /\ Outcomes(r1) = Outcomes(r2)
        /\ (Done(r1) <=> Done(r2)))
    => /\ result[r1] = result[r2]
       /\ fwd[r1] = fwd[r2]

\* a step is a step of one invocation and leaves every other one as it was
OneContextPerStep ==
    \E r \in Reqs : \A q \in Reqs \ {r} : Context(q)' = Context(q)

\* C19: under any interleaving of the invocations each one uses only its
\* own event, token, principal and groups, makes its own introspection
\* call, answers as its own event and the collaborators' answers to its
\* own calls determine, and a step of one leaves the others untouched.
C19_RequestsIndependent ==
    /\ [](\A r \in Reqs : UsesOwnData(r) /\ OwnIntrospection(r))
    /\ [](\A r1, r2 \in Reqs : SameInputsSameOutput(r1, r2))
    /\ [][OneContextPerStep]_vars

\* two invocations with the same token ran side by side for two different
\* principals: one was denied on '/admin-panel' while the other was still
\* waiting for its group listing
C19_Witness ==
    /\ token[1] = token[2]
    /\ token[1].some
    /\ pc[1] = "admin_list_groups_for_user"
    /\ username[1] = "alice"
    /\ Done(2)
    /\ username[2] = "bob"
    /\ Len(calls[2]) = 2
    /\ result[2] = DeniedDeviceResponse

\* ------------------------------------------------- C20
\* invocation r failed authentication: its header gave no token, or the
\* provider rejected the token
FailedAuthentication(r) ==
    /\ Done(r)
    /\ \/ calls[r] = <<>>
       \/ calls[r][Len(calls[r])].outcome.kind = "NotAuthorizedException"

\* C20: the check of PROTECTED_API_BASE_URL runs after authentication and
\* before the policy: when the variable is unset (or empty) every request
\* that authenticates is answered 500 'Configuration error' whatever its
\* path, groups and device id, with no backend call; the configuration
\* error is given to authenticated requests only, and a request that
\* fails authentication still gets 401.
C20_ConfigCheckBeforePolicy ==
    \A r \in Reqs :
        /\ (Authenticated(r) /\ ~ProtectedConfigured)
              => /\ Done(r)
                 /\ result[r] = ConfigurationErrorResponse
                 /\ Failed500NoForward(r)
        /\ (Done(r) /\ result[r] = ConfigurationErrorResponse)
              => Authenticated(r) /\ ~ProtectedConfigured
        /\ (FailedAuthentication(r) /\ ~ProtectedConfigured)
              => result[r].statusCode = 401

\* with the variable unset, a principal in no group asked for
\* '/protectedPath', which the policy would deny, and got 500
C20_Witness ==
    \E r \in Reqs :
        /\ environ.PROTECTED_API_BASE_URL = None
        /\ Authenticated(r)
        /\ user_groups[r] = {}
        /\ request_path(event[r]) = PrefixProtected
        /\ result[r].statusCode = 500
        /\ Len(calls[r]) = 2
====
